---- MODULE Spec2Model ----
(***************************************************************************)
(* Conversation orchestration of the ChatBot backend: the WhatsApp webhook *)
(* handler, ConversationEngine, ConversationMemory, HandoffEvaluator and   *)
(* the two storage backends (InMemoryStorage, FirestoreStorage).           *)
(*                                                                         *)
(* Each webhook delivery is an asyncio task.  A task runs without          *)
(* interruption until an await that really suspends; `running` names the   *)
(* task that holds the event loop between two steps that no suspension     *)
(* separates.  Sentiment scores are scaled by 100 (-0.5 is -50).           *)
(***************************************************************************)
EXTENDS Integers, Sequences, FiniteSets, TLC

\* ---------------------------------------------------------------- bounds
MaxEvents == 2          \* webhook deliveries in one behaviour
SummaryThreshold == 2   \* settings.summary_threshold_turns as configured
MaxContextMessages == 2 \* settings.max_context_messages as configured
TimeBase == 1700000000  \* POSIX seconds at which the service started
MaxCalls == 12          \* calls that change one Conversation called directly
MaxSamples == 4         \* sentiment samples of a Conversation given to evaluate
MaxClock == 3           \* ticks of the clock while session data is used

\* ------------------------------------------------------- program constants
SentimentThreshold == -50   \* settings.handoff_sentiment_threshold * 100
MaxFallbacks == 2           \* settings.handoff_max_fallbacks
HistoryLimit == 10          \* sentiment scores a Conversation keeps

Tasks == {"A", "B"}
Before(u, t) == <<u, t>> \in {<<"A", "B">>}
None == "none"
Nobody == None
Backends == {"memory", "firestore"}
KnownTenant == "demo"
TenantIds == {KnownTenant, "ghost"}
Users == {"u1"}
Scores == {-80, 0}
\* SentimentResult of the keyword analysis for a text with one negative word
\* and for a text with none: score and confidence, both scaled by 100
Sentiments == {[score |-> -80, confidence |-> 90],
               [score |-> 0, confidence |-> 80]}
\* results that only Comprehend gives: a score at the threshold, and a
\* negative text it is certain about
SentimentResults ==
    Sentiments \cup {[score |-> -50, confidence |-> 60],
                     [score |-> -60, confidence |-> 100]}
\* handoff keywords of TenantConfig that a message can contain
Keywords == {"agent", "human"}
\* orders in which a process iterates over the set of keywords: the order of
\* a set of str follows the hashes of this process (hash randomisation)
KeywordOrders == {<<"agent", "human">>, <<"human", "agent">>}
ConvIds == 1..MaxEvents

ACTIVE == "active"
HANDOFF_PENDING == "handoff_pending"
HANDOFF_ACTIVE == "handoff_active"
RESOLVED == "resolved"
EXPIRED == "expired"
HandoffStates == {HANDOFF_PENDING, HANDOFF_ACTIVE}
OpenStates == {ACTIVE, HANDOFF_PENDING, HANDOFF_ACTIVE}

VARIABLES
    backend,         \* which StorageBackend get_storage() constructed
    use_comprehend,  \* SentimentAnalyzer._use_comprehend
    tenants,         \* storage: tenant id -> TenantConfig
    stored,          \* storage: conversation id -> persisted record, or None
    messages,        \* storage: persisted Message records, in creation order
    memstore,        \* vector store: the payloads of its documents
    tk,              \* per task: position, local objects, per-turn history
    running,         \* task holding the event loop, or Nobody
    events,          \* webhook deliveries so far
    now,             \* datetime.utcnow(), in session windows since the start
    unit,            \* a Conversation and a HandoffEvaluator called directly
    session_data,    \* storage: session key -> (data, expiry)
    returned,        \* the latest direct call of an operation and its result
    llm              \* an LLMProvider and the complete calls in progress

\* the state of the service
service == <<backend, use_comprehend, tenants, stored, messages, memstore, tk,
             running, events>>
\* what only direct calls of the storage operations touch
direct == <<session_data, returned, llm>>
vars == <<service, now, unit, direct>>

\* ------------------------------------------------------------ data model
\* TenantConfig defaults
DefaultConfig == [enable_auto_handoff |-> TRUE,
                  enable_sentiment_analysis |-> TRUE]

\* handoff_reason of a conversation that was never handed off
NoReason == <<>>

\* Conversation(...) as get_or_create_conversation constructs it; a datetime
\* that is None is <<>>, average_sentiment is <<numerator, denominator>>
NewConversation(tenant_id, user_id) ==
    [tenant_id |-> tenant_id, user_id |-> user_id, status |-> ACTIVE,
     message_count |-> 0, user_message_count |-> 0, bot_message_count |-> 0,
     fallback_count |-> 0, sentiment_history |-> <<>>,
     average_sentiment |-> <<0, 1>>, summaries |-> <<>>,
     last_user_message_at |-> <<>>, handoff_reason |-> NoReason]

\* the slot of a conversation id that storage does not hold
Absent == [NewConversation(None, None) EXCEPT !.status = "absent"]

\* HandoffDecision(should_handoff=False); a reason is <<text, value shown>>,
\* a context is a record, the context None the record without fields
NoContext == [k \in {} |-> None]
NoDecision == [should_handoff |-> FALSE, trigger |-> None, confidence |-> 0,
               reason |-> <<>>, context |-> NoContext]

\* a task that handles no request
IdleTask ==
    [pc |-> "idle", tenant_id |-> None, user_id |-> None, is_message |-> FALSE,
     kw |-> FALSE, cid |-> 0, conv |-> Absent, score |-> 0, confidence |-> 0,
     comprehend_failed |-> FALSE, decision |-> NoDecision,
     kb |-> None, mem |-> None, window |-> <<>>, message_range |-> <<0, 0>>,
     summarized |-> FALSE, outcome |-> None,
     \* history of the turn: what it wrote and called since the conversation
     \* was loaded or created
     n_in |-> 0, n_out |-> 0, n_llm |-> 0, n_save |-> 0,
     \* steps: what the turn did so far, in order; incoming: the index of the
     \* turn's inbound Message; blocks, sent: the context blocks of the system
     \* prompt and the message list given to llm.complete
     steps |-> <<>>, incoming |-> 0, blocks |-> <<>>, sent |-> <<>>]

\* ------------------------------------------------------------ helpers
Last(s) == s[Len(s)]

RECURSIVE SumSeq(_)
SumSeq(s) == IF s = <<>> THEN 0 ELSE s[1] + SumSeq(Tail(s))

\* s[-n:]
LastN(s, n) == IF Len(s) <= n THEN s ELSE SubSeq(s, Len(s) - n + 1, Len(s))
\* s[:n]
FirstN(s, n) == IF Len(s) <= n THEN s ELSE SubSeq(s, 1, n)
\* s[i:] with a 0-based start
From(s, i) == IF i >= Len(s) THEN <<>> ELSE SubSeq(s, i + 1, Len(s))

RECURSIVE SelectIdx(_, _)
\* indices into `messages` of the messages of conversation c, by created_at
SelectIdx(c, n) ==
    IF n = 0 THEN <<>>
    ELSE IF messages[n].conversation_id = c
         THEN Append(SelectIdx(c, n - 1), n)
         ELSE SelectIdx(c, n - 1)
MsgsOf(c) == SelectIdx(c, Len(messages))

\* Message.created_at.timestamp() of the message at index i
Timestamp(i) == TimeBase + i

Exists(c) == stored[c].status # "absent"

\* the Conversation object task t holds: InMemoryStorage hands out the stored
\* object itself, FirestoreStorage a deserialised copy
Conv(t) == IF backend = "memory" /\ Exists(tk[t].cid) THEN stored[tk[t].cid]
           ELSE tk[t].conv

\* does the await that ends a step suspend the task?
Yields(kind) == kind = "io" \/ (kind = "storage" /\ backend = "firestore")
CanRun(t) == running \in {Nobody, t}
Hold(t, kind) == running' = IF Yields(kind) THEN Nobody ELSE t


\* what storage holds / what the task holds after the task's Conversation
\* object became r, with or without a save_conversation
StoredAfter(t, r, save) ==
    IF backend = "memory" \/ save THEN [stored EXCEPT ![tk[t].cid] = r]
    ELSE stored
LocalAfter(t, r) ==
    IF backend = "memory" THEN tk[t] ELSE [tk[t] EXCEPT !.conv = r]

\* the handler returns its Response
Finish(rec, outcome) ==
    [IdleTask EXCEPT !.pc = "done", !.outcome = outcome, !.cid = rec.cid,
                     !.n_in = rec.n_in, !.n_out = rec.n_out,
                     !.n_llm = rec.n_llm, !.n_save = rec.n_save,
                     !.steps = rec.steps]

\* StorageBackend.get_messages(conversation_id, limit)
get_messages(c, limit) ==
    IF backend = "memory" THEN LastN(MsgsOf(c), limit)
    ELSE FirstN(MsgsOf(c), limit)

\* StorageBackend.get_recent_messages(conversation_id, limit):
\* InMemoryStorage delegates to get_messages, FirestoreStorage takes the
\* first `limit` of the descending order and reverses them
RECURSIVE Reverse(_)
Reverse(s) == IF s = <<>> THEN <<>> ELSE Append(Reverse(Tail(s)), s[1])
get_recent_messages_oldest(c, limit) == FirstN(MsgsOf(c), limit)
get_recent_messages(c, limit) ==
    IF backend = "memory" THEN get_messages(c, limit)
    ELSE Reverse(FirstN(Reverse(MsgsOf(c)), limit))

\* StorageBackend.get_conversation_by_user: the open conversations it may return
OpenConversations(tenant_id, user_id) ==
    {c \in ConvIds : /\ Exists(c)
                     /\ stored[c].tenant_id = tenant_id
                     /\ stored[c].user_id = user_id
                     /\ stored[c].status \in OpenStates}

\* uuid4(): an identifier nobody uses
FreshIds == {c \in ConvIds : /\ ~Exists(c)
                             /\ \A u \in Tasks : tk[u].cid # c}

\* SentimentAnalyzer.analyze: Comprehend's score when Comprehend is configured
\* and answers, the keyword analysis otherwise; raised: an exception leaves
\* analyze
analyze_raising(comprehend_ok, comprehend_result, keyword_result) ==
    IF use_comprehend /\ comprehend_ok
    THEN [raised |-> FALSE, result |-> comprehend_result, fallback |-> FALSE]
    ELSE [raised |-> use_comprehend, result |-> keyword_result,
          fallback |-> use_comprehend]
analyze(comprehend_ok, comprehend_result, keyword_result) ==
    IF use_comprehend /\ comprehend_ok
    THEN [raised |-> FALSE, result |-> comprehend_result, fallback |-> FALSE]
    ELSE [raised |-> FALSE, result |-> keyword_result,
          fallback |-> use_comprehend]

\* the webhook on a handoff decision: status and handoff_reason
Escalate_no_reason(conv, d) == [conv EXCEPT !.status = HANDOFF_PENDING]
Escalate(conv, d) ==
    [conv EXCEPT !.status = HANDOFF_PENDING, !.handoff_reason = d.reason]

\* process_message: the counters after the inbound / the outbound message
CountIncoming(conv, utcnow) ==
    [conv EXCEPT !.message_count = @ + 1, !.user_message_count = @ + 1,
                 !.last_user_message_at = <<utcnow>>]
CountOutgoing_total_only(conv) == [conv EXCEPT !.message_count = @ + 1]
CountOutgoing(conv) ==
    [conv EXCEPT !.message_count = @ + 1, !.bot_message_count = @ + 1]

\* Conversation.update_sentiment: the history keeps the last HistoryLimit
\* scores; the average weighs the i-th retained score by i
RECURSIVE WeightedSum(_)
WeightedSum(s) ==
    IF s = <<>> THEN 0 ELSE WeightedSum(FirstN(s, Len(s) - 1)) + Len(s) * Last(s)
TotalWeight_count(k) == k
RECURSIVE TotalWeight(_)
TotalWeight(k) == IF k = 0 THEN 0 ELSE k + TotalWeight(k - 1)
update_sentiment_keep_first(conv, new_score) ==
    [conv EXCEPT !.sentiment_history = FirstN(Append(@, new_score), HistoryLimit)]
update_sentiment(conv, new_score) ==
    LET history == LastN(Append(conv.sentiment_history, new_score),
                         HistoryLimit) IN
    [conv EXCEPT !.sentiment_history = history,
                 !.average_sentiment = <<WeightedSum(history),
                                         TotalWeight(Len(history))>>]

\* Conversation.is_within_session_window; utcnow and the datetimes count
\* session windows
is_within_session_window(conv, utcnow) ==
    IF conv.last_user_message_at = <<>> THEN FALSE
    ELSE utcnow - conv.last_user_message_at[1] < 1

\* HandoffEvaluator._check_sentiment; sentiment: the SentimentResult
TriggerInstant_at_threshold(score) == score <= SentimentThreshold
TriggerInstant(score) == score < SentimentThreshold
TriggerSustained(conv) ==
    /\ Len(conv.sentiment_history) >= 3
    /\ SumSeq(LastN(conv.sentiment_history, 3)) < 3 * SentimentThreshold
_check_sentiment(sentiment, conv) ==
    IF TriggerInstant(sentiment.score)
    THEN [should_handoff |-> TRUE, trigger |-> "negative_sentiment",
          confidence |-> sentiment.confidence,
          reason |-> <<"Negative sentiment detected", sentiment.score>>,
          context |-> [score |-> sentiment.score,
                       threshold |-> SentimentThreshold]]
    ELSE IF TriggerSustained(conv)
    THEN LET recent == LastN(conv.sentiment_history, 3) IN
         [should_handoff |-> TRUE, trigger |-> "negative_sentiment",
          confidence |-> 80,
          reason |-> <<"Sustained negative sentiment", <<SumSeq(recent), 3>>>>,
          context |-> [recent_average |-> <<SumSeq(recent), 3>>,
                       history |-> recent]]
    ELSE NoDecision

\* HandoffEvaluator._check_explicit_request; matched: the keywords of the
\* tenant's (or the default) set that occur in the lower-cased message,
\* order: the order in which this process iterates over the set
FirstMatch(matched, order) ==
    order[CHOOSE i \in DOMAIN order :
             /\ order[i] \in matched
             /\ \A j \in DOMAIN order : order[j] \in matched => i <= j]
_check_explicit_request(matched, order) ==
    IF matched # {}
    THEN [should_handoff |-> TRUE, trigger |-> "explicit_request",
          confidence |-> 100,
          reason |-> <<"User requested human agent",
                       FirstMatch(matched, order)>>,
          context |-> [matched_keyword |-> FirstMatch(matched, order)]]
    ELSE NoDecision

\* HandoffEvaluator._check_fallbacks
_check_fallbacks_above(conv) ==
    IF conv.fallback_count > MaxFallbacks
    THEN [should_handoff |-> TRUE, trigger |-> "max_fallbacks",
          confidence |-> 100,
          reason |-> <<"Max fallbacks reached", conv.fallback_count>>,
          context |-> [fallback_count |-> conv.fallback_count,
                       threshold |-> MaxFallbacks]]
    ELSE NoDecision
_check_fallbacks(conv) ==
    IF conv.fallback_count >= MaxFallbacks
    THEN [should_handoff |-> TRUE, trigger |-> "max_fallbacks",
          confidence |-> 100,
          reason |-> <<"Max fallbacks reached", conv.fallback_count>>,
          context |-> [fallback_count |-> conv.fallback_count,
                       threshold |-> MaxFallbacks]]
    ELSE NoDecision

\* HandoffEvaluator._check_loop
_check_loop_after_fallback(matched, conv) ==
    IF conv.fallback_count >= 1
    THEN [should_handoff |-> TRUE, trigger |-> "loop_detected",
          confidence |-> 80, reason |-> <<"Loop detected">>,
          context |-> NoContext]
    ELSE NoDecision
_check_loop(matched, conv) == NoDecision

\* HandoffEvaluator.evaluate
evaluate_sentiment_first(matched, conv, config, sentiment, order) ==
    IF ~config.enable_auto_handoff THEN NoDecision
    ELSE IF /\ config.enable_sentiment_analysis
            /\ _check_sentiment(sentiment, conv).should_handoff
    THEN _check_sentiment(sentiment, conv)
    ELSE IF _check_explicit_request(matched, order).should_handoff
    THEN _check_explicit_request(matched, order)
    ELSE IF _check_fallbacks(conv).should_handoff
    THEN _check_fallbacks(conv)
    ELSE _check_loop(matched, conv)
evaluate(matched, conv, config, sentiment, order) ==
    IF ~config.enable_auto_handoff THEN NoDecision
    ELSE IF _check_explicit_request(matched, order).should_handoff
    THEN _check_explicit_request(matched, order)
    ELSE IF /\ config.enable_sentiment_analysis
            /\ _check_sentiment(sentiment, conv).should_handoff
    THEN _check_sentiment(sentiment, conv)
    ELSE IF _check_fallbacks(conv).should_handoff
    THEN _check_fallbacks(conv)
    ELSE IF _check_loop(matched, conv).should_handoff
    THEN _check_loop(matched, conv)
    ELSE NoDecision

\* the checks evaluate runs, in the order in which it runs them
checks_run_when_disabled(matched, conv, config, sentiment, order) ==
    IF _check_explicit_request(matched, order).should_handoff
    THEN <<"explicit_request">>
    ELSE <<"explicit_request", "fallbacks", "loop">>
checks_run(matched, conv, config, sentiment, order) ==
    IF ~config.enable_auto_handoff THEN <<>>
    ELSE IF _check_explicit_request(matched, order).should_handoff
    THEN <<"explicit_request">>
    ELSE IF /\ config.enable_sentiment_analysis
            /\ _check_sentiment(sentiment, conv).should_handoff
    THEN <<"explicit_request", "sentiment">>
    ELSE (IF config.enable_sentiment_analysis
          THEN <<"explicit_request", "sentiment", "fallbacks">>
          ELSE <<"explicit_request", "fallbacks">>)
         \o (IF _check_fallbacks(conv).should_handoff THEN <<>>
             ELSE <<"loop">>)

\* ConversationMemory.should_summarize
LastSummarized(conv) ==
    IF conv.summaries = <<>> THEN 0 ELSE Last(conv.summaries).message_range[2]
should_summarize(conv) ==
    conv.message_count - LastSummarized(conv) >= SummaryThreshold

\* ConversationMemory.process_conversation_memory: the slice it summarizes
messages_to_summarize(conv, all_messages) ==
    IF LastSummarized(conv) < Len(all_messages)
    THEN From(all_messages, LastSummarized(conv))
    ELSE LastN(all_messages, SummaryThreshold)

\* ------------------------------------------------------------ initial state
\* no evaluation yet
NoCall == [called |-> FALSE, matched |-> {}, config |-> DefaultConfig,
           sentiment |-> [score |-> 0, confidence |-> 0],
           decision |-> NoDecision, checks |-> <<>>]

\* a new Conversation and a HandoffEvaluator; supplied: the scores given to
\* update_sentiment so far; last: the latest call of evaluate
IdleUnit == [conversation |-> NewConversation(KnownTenant, "u1"),
             order |-> <<"agent", "human">>, supplied |-> <<>>,
             last |-> NoCall]

\* an LLMProvider on which complete was not called; stack: the complete
\* calls in progress, the innermost last; calls: litellm.acompletion calls
IdleProvider == [primary_model |-> "m1", fallback_models |-> <<"m2">>,
                 stack |-> <<>>, calls |-> 0, result |-> None]

\* no storage operation was called directly yet; value: what the call
\* returned, <<>> for None and <<x>> for x
NoReturn == [op |-> None, key |-> None, arg |-> <<>>, value |-> <<>>]

\* the service has started (lifespan) and has handled nothing; config: the
\* TenantConfig of the tenant storage holds
Quiescent ==
    /\ stored = [c \in ConvIds |-> Absent]
    /\ messages = <<>>
    /\ tk = [t \in Tasks |-> IdleTask]
    /\ running = Nobody
    /\ events = 0
    /\ now = 0
    /\ session_data = [key \in {} |-> <<>>]
    /\ returned = NoReturn
    /\ llm = IdleProvider
StartedWith(config) ==
    /\ tenants = [x \in {KnownTenant} |-> config]
    /\ memstore = {}
    /\ Quiescent
Started == StartedWith(DefaultConfig)

Init ==
    /\ backend \in Backends
    /\ use_comprehend \in BOOLEAN
    /\ Started
    /\ unit = IdleUnit

\* ------------------------------------------------------------ the webhook
\* a delivery arrives and is given to the first free handler; the handler
\* runs up to `await request.form()`.  kw: the Body contains a handoff keyword
Free(t) == tk[t].pc \in {"idle", "done"}
Receive(t) ==
    /\ running = Nobody
    /\ Free(t)
    /\ \A u \in Tasks : Before(u, t) => ~Free(u)
    /\ events < MaxEvents
    /\ \E tenant_id \in TenantIds, user_id \in Users, is_message \in BOOLEAN,
          kw \in BOOLEAN :
         /\ (~is_message \/ tenant_id # KnownTenant) => ~kw
         /\ tk' = [tk EXCEPT ![t] = [IdleTask EXCEPT
                  !.pc = "form", !.tenant_id = tenant_id, !.user_id = user_id,
                  !.is_message = is_message, !.kw = kw]]
    /\ events' = events + 1
    /\ running' = Nobody
    /\ UNCHANGED <<now, unit, direct, backend, use_comprehend, tenants, stored, messages, memstore>>

\* whatsapp.parse_webhook; then `await storage.get_tenant`
ParseWebhook(t) ==
    /\ CanRun(t)
    /\ tk[t].pc = "form"
    /\ IF ~tk[t].is_message
       THEN /\ tk' = [tk EXCEPT ![t] = Finish(@, "ignored")]
            /\ running' = Nobody
       ELSE /\ tk' = [tk EXCEPT ![t].pc = "get_tenant"]
            /\ Hold(t, "storage")
    /\ UNCHANGED <<now, unit, direct, backend, use_comprehend, tenants, stored, messages, memstore,
                   events>>

\* storage.get_tenant returns; then `await storage.get_conversation_by_user`
GetTenant_unchecked(t) ==
    /\ CanRun(t)
    /\ tk[t].pc = "get_tenant"
    /\ tk' = [tk EXCEPT ![t].pc = "get_conv"]
    /\ Hold(t, "storage")
    /\ UNCHANGED <<now, unit, direct, backend, use_comprehend, tenants, stored, messages, memstore,
                   events>>
GetTenant(t) ==
    /\ CanRun(t)
    /\ tk[t].pc = "get_tenant"
    /\ IF tk[t].tenant_id \notin DOMAIN tenants
       THEN /\ tk' = [tk EXCEPT ![t] = Finish(@, "no_tenant")]
            /\ running' = Nobody
       ELSE /\ tk' = [tk EXCEPT ![t].pc = "get_conv"]
            /\ Hold(t, "storage")
    /\ UNCHANGED <<now, unit, direct, backend, use_comprehend, tenants, stored, messages, memstore,
                   events>>

\* engine.get_or_create_conversation: the lookup returns
GetConversation(t) ==
    /\ CanRun(t)
    /\ tk[t].pc = "get_conv"
    /\ LET open == OpenConversations(tk[t].tenant_id, tk[t].user_id) IN
       IF open # {}
       THEN /\ \E c \in open :
                 /\ backend = "memory" => \A d \in open : c <= d
                 /\ tk' = [tk EXCEPT ![t] = [@ EXCEPT
                        !.pc = "check", !.cid = c,
                        !.conv = IF backend = "memory" THEN Absent
                                 ELSE stored[c]]]
            /\ running' = t
       ELSE /\ \E c \in FreshIds :
                 /\ \A d \in FreshIds : c <= d
                 /\ tk' = [tk EXCEPT ![t] = [@ EXCEPT
                        !.pc = "create", !.cid = c,
                        !.conv = NewConversation(tk[t].tenant_id,
                                                 tk[t].user_id)]]
            /\ Hold(t, "storage")
    /\ UNCHANGED <<now, unit, direct, backend, use_comprehend, tenants, stored, messages, memstore,
                   events>>

\* engine.get_or_create_conversation: save_conversation of the new record
CreateConversation(t) ==
    /\ CanRun(t)
    /\ tk[t].pc = "create"
    /\ stored' = [stored EXCEPT ![tk[t].cid] = tk[t].conv]
    /\ tk' = [tk EXCEPT ![t] = [@ EXCEPT
                 !.pc = "check",
                 !.conv = IF backend = "memory" THEN Absent ELSE @]]
    /\ running' = t
    /\ UNCHANGED <<now, unit, direct, backend, use_comprehend, tenants, messages, memstore, events>>

\* the handoff-mode check of the webhook
CheckHandoffMode(t) ==
    /\ CanRun(t)
    /\ tk[t].pc = "check"
    /\ IF Conv(t).status \in HandoffStates
       THEN /\ tk' = [tk EXCEPT ![t] = Finish(@, "skipped")]
            /\ running' = Nobody
       ELSE /\ tk' = [tk EXCEPT ![t].pc = "sentiment"]
            /\ running' = t
    /\ UNCHANGED <<now, unit, direct, backend, use_comprehend, tenants, stored, messages, memstore,
                   events>>

\* sentiment.analyze (AWS Comprehend when configured, the keyword analysis
\* when it is not or when Comprehend raises), then
\* conversation.update_sentiment
AnalyzeSentiment(t) ==
    /\ CanRun(t)
    /\ tk[t].pc = "sentiment"
    /\ \E comprehend_ok \in BOOLEAN,
          comprehend_result, keyword_result \in Sentiments :
         LET res == analyze(comprehend_ok, comprehend_result, keyword_result)
             r == update_sentiment(Conv(t), res.result.score) IN
         IF res.raised
         THEN /\ tk' = [tk EXCEPT ![t] = Finish(@, "failed")]
              /\ stored' = stored
              /\ running' = Nobody
         ELSE /\ stored' = StoredAfter(t, r, FALSE)
              /\ tk' = [tk EXCEPT ![t] = [LocalAfter(t, r) EXCEPT
                      !.pc = "evaluate", !.steps = Append(@, "sentiment"),
                      !.score = res.result.score,
                      !.confidence = res.result.confidence,
                      !.comprehend_failed = res.fallback]]
              /\ running' = t
    /\ UNCHANGED <<now, unit, direct, backend, use_comprehend, tenants, messages, memstore, events>>

\* the arguments of handoff.evaluate in the webhook: a Body with a handoff
\* keyword has the keyword "agent"
Matched(t) == IF tk[t].kw THEN {"agent"} ELSE {}
SentimentOf(t) == [score |-> tk[t].score, confidence |-> tk[t].confidence]

\* handoff.evaluate and the branch on its decision
EvaluateHandoff(t) ==
    /\ CanRun(t)
    /\ tk[t].pc = "evaluate"
    /\ \E order \in KeywordOrders :
       LET d == evaluate(Matched(t), Conv(t), tenants[tk[t].tenant_id],
                         SentimentOf(t), order) IN
       IF d.should_handoff
       THEN LET r == Escalate(Conv(t), d) IN
            /\ stored' = StoredAfter(t, r, FALSE)
            /\ tk' = [tk EXCEPT ![t] = [LocalAfter(t, r) EXCEPT
                       !.pc = "esc_save", !.decision = d,
                       !.steps = Append(@, "evaluate")]]
       ELSE /\ stored' = stored
            /\ tk' = [tk EXCEPT ![t] = [@ EXCEPT
                       !.pc = "save_in", !.decision = d, !.kw = FALSE,
                       !.steps = Append(@, "evaluate"),
                       !.score = 0, !.confidence = 0,
                       !.comprehend_failed = FALSE]]
    /\ Hold(t, "storage")
    /\ UNCHANGED <<now, unit, direct, backend, use_comprehend, tenants, messages, memstore, events>>

\* the escalation branch: save_conversation, then whatsapp.send_text (a
\* ChannelError it raises is logged by the handler and changes nothing)
SaveEscalation(t) ==
    /\ CanRun(t)
    /\ tk[t].pc = "esc_save"
    /\ stored' = StoredAfter(t, Conv(t), TRUE)
    /\ tk' = [tk EXCEPT ![t] = Finish([@ EXCEPT !.n_save = @ + 1],
                                       "escalated")]
    /\ running' = Nobody
    /\ UNCHANGED <<now, unit, direct, backend, use_comprehend, tenants, messages, memstore, events>>


\* ---------------------------------------------------- engine.process_message
Message(c, direction, is_from_bot) ==
    [conversation_id |-> c, direction |-> direction, is_from_bot |-> is_from_bot]

\* save_message(incoming_msg), the counters; then _build_context awaits the
\* knowledge-base search
SaveIncoming_and_conversation(t) ==
    /\ CanRun(t)
    /\ tk[t].pc = "save_in"
    /\ messages' = Append(messages, Message(tk[t].cid, "inbound", FALSE))
    /\ LET r == CountIncoming(Conv(t), now) IN
       /\ stored' = StoredAfter(t, r, TRUE)
       /\ tk' = [tk EXCEPT ![t] = [LocalAfter(t, r) EXCEPT
                   !.pc = "kb", !.n_in = @ + 1, !.n_save = @ + 1,
                   !.incoming = Len(messages) + 1,
                   !.steps = Append(@, "inbound")]]
    /\ Hold(t, "io")
    /\ UNCHANGED <<now, unit, direct, backend, use_comprehend, tenants, memstore, events>>
SaveIncoming(t) ==
    /\ CanRun(t)
    /\ tk[t].pc = "save_in"
    /\ messages' = Append(messages, Message(tk[t].cid, "inbound", FALSE))
    /\ LET r == CountIncoming(Conv(t), now) IN
       /\ stored' = StoredAfter(t, r, FALSE)
       /\ tk' = [tk EXCEPT ![t] = [LocalAfter(t, r) EXCEPT
                   !.pc = "kb", !.n_in = @ + 1,
                   !.incoming = Len(messages) + 1,
                   !.steps = Append(@, "inbound")]]
    /\ Hold(t, "io")
    /\ UNCHANGED <<now, unit, direct, backend, use_comprehend, tenants, memstore, events>>

\* retriever.retrieve: vector_store.search(doc_type="knowledge") returns or
\* raises VectorStoreError; then the memory search is awaited
SearchKnowledge(t) ==
    /\ CanRun(t)
    /\ tk[t].pc = "kb"
    /\ \E result \in {"failed", "empty", "hit"} :
         IF result = "failed"
         THEN /\ tk' = [tk EXCEPT ![t] = Finish([@ EXCEPT !.kb = result],
                                                "failed")]
              /\ running' = Nobody
         ELSE /\ tk' = [tk EXCEPT ![t] = [@ EXCEPT !.pc = "mem",
                                                   !.kb = result]]
              /\ Hold(t, "io")
    /\ UNCHANGED <<now, unit, direct, backend, use_comprehend, tenants, stored, messages, memstore,
                   events>>

\* vector_store.search(doc_type="memory", user_id filter) returns or raises;
\* then memory.get_context_messages awaits storage
SearchMemory(t) ==
    /\ CanRun(t)
    /\ tk[t].pc = "mem"
    /\ \E result \in {"failed", "empty", "hit"} :
         /\ result = "hit" =>
               \E d \in memstore : /\ d.tenant_id = tk[t].tenant_id
                                   /\ d.user_id = tk[t].user_id
         /\ IF result = "failed"
            THEN /\ tk' = [tk EXCEPT ![t] = Finish([@ EXCEPT !.mem = result],
                                                   "failed")]
                 /\ running' = Nobody
            ELSE /\ tk' = [tk EXCEPT ![t] = [@ EXCEPT !.pc = "recent",
                                       !.mem = result,
                                       !.steps = Append(@, "retrieve")]]
                 /\ Hold(t, "storage")
    /\ UNCHANGED <<now, unit, direct, backend, use_comprehend, tenants, stored, messages, memstore,
                   events>>

\* ConversationContext.to_prompt_context: the blocks of the context, in
\* order; kb: the outcome of the knowledge-base search
to_prompt_context(kb, conv) ==
    (IF kb = "hit" THEN <<"knowledge">> ELSE <<>>)
       \o (IF conv.summaries # <<>> THEN <<"summary">> ELSE <<>>)

\* _generate_response: the messages given to llm.complete, recent_messages
\* and the user message; a message is its index in `messages`
llm_messages(recent_messages, user_message) ==
    Append(recent_messages, user_message)

\* storage.get_recent_messages returns; the context is built and
\* _generate_response awaits llm.complete
GetContextMessages(t) ==
    /\ CanRun(t)
    /\ tk[t].pc = "recent"
    /\ tk' = [tk EXCEPT ![t] = [@ EXCEPT
                !.pc = "generate",
                !.window = get_recent_messages(tk[t].cid, MaxContextMessages),
                !.blocks = to_prompt_context(tk[t].kb, Conv(t)),
                !.sent = llm_messages(
                            get_recent_messages(tk[t].cid, MaxContextMessages),
                            tk[t].incoming),
                !.steps = Append(@, "window"),
                !.n_llm = @ + 1]]
    /\ Hold(t, "io")
    /\ UNCHANGED <<now, unit, direct, backend, use_comprehend, tenants, stored, messages, memstore,
                   events>>

\* llm.complete returns or raises LLMError; then save_message(outgoing_msg)
GenerateResponse(t) ==
    /\ CanRun(t)
    /\ tk[t].pc = "generate"
    /\ \E ok \in BOOLEAN :
         IF ok
         THEN /\ tk' = [tk EXCEPT ![t] = [@ EXCEPT !.pc = "save_out",
                                    !.kb = None, !.mem = None,
                                    !.window = <<>>, !.blocks = <<>>,
                                    !.sent = <<>>, !.incoming = 0,
                                    !.steps = Append(@, "generate")]]
              /\ Hold(t, "storage")
         ELSE /\ tk' = [tk EXCEPT ![t] = Finish(@, "failed")]
              /\ running' = Nobody
    /\ UNCHANGED <<now, unit, direct, backend, use_comprehend, tenants, stored, messages, memstore,
                   events>>

\* save_message(outgoing_msg), the counters; then save_conversation is awaited
SaveOutgoing(t) ==
    /\ CanRun(t)
    /\ tk[t].pc = "save_out"
    /\ messages' = Append(messages, Message(tk[t].cid, "outbound", TRUE))
    /\ LET r == CountOutgoing(Conv(t)) IN
       /\ stored' = StoredAfter(t, r, FALSE)
       /\ tk' = [tk EXCEPT ![t] = [LocalAfter(t, r) EXCEPT
                   !.pc = "save_conv", !.n_out = @ + 1,
                   !.steps = Append(@, "outbound")]]
    /\ Hold(t, "storage")
    /\ UNCHANGED <<now, unit, direct, backend, use_comprehend, tenants, memstore, events>>

\* save_conversation; then process_conversation_memory up to get_messages
SaveConversation(t) ==
    /\ CanRun(t)
    /\ tk[t].pc = "save_conv"
    /\ stored' = StoredAfter(t, Conv(t), TRUE)
    /\ IF should_summarize(Conv(t))
       THEN /\ tk' = [tk EXCEPT ![t] = [@ EXCEPT
                   !.pc = "get_msgs", !.n_save = @ + 1,
                   !.steps = @ \o <<"persist", "summarize_check">>]]
            /\ Hold(t, "storage")
       ELSE /\ tk' = [tk EXCEPT ![t] = [@ EXCEPT
                   !.pc = "send", !.n_save = @ + 1,
                   !.steps = @ \o <<"persist", "summarize_check">>]]
            /\ running' = t
    /\ UNCHANGED <<now, unit, direct, backend, use_comprehend, tenants, messages, memstore, events>>

\* ------------------------------ memory.process_conversation_memory
\* storage.get_messages returns (or, with Firestore, raises: the call is
\* outside the try block, the exception leaves process_message and the
\* webhook's handler answers without a reply); the slice is taken;
\* create_summary awaits llm.summarize
LoadMessages(t) ==
    /\ CanRun(t)
    /\ tk[t].pc = "get_msgs"
    /\ \E loaded \in BOOLEAN :
       /\ backend = "memory" => loaded
       /\ LET all_messages == get_messages(tk[t].cid, SummaryThreshold + 5)
              slice == messages_to_summarize(Conv(t), all_messages) IN
          IF ~loaded
          THEN /\ tk' = [tk EXCEPT ![t] = Finish(@, "failed")]
               /\ running' = Nobody
          ELSE IF Len(slice) < SummaryThreshold
          THEN /\ tk' = [tk EXCEPT ![t].pc = "send"]
               /\ running' = t
          ELSE /\ tk' = [tk EXCEPT ![t] = [@ EXCEPT
                      !.pc = "summarize",
                      !.message_range = <<Timestamp(slice[1]),
                                          Timestamp(Last(slice))>>]]
               /\ Hold(t, "io")
    /\ UNCHANGED <<now, unit, direct, backend, use_comprehend, tenants, stored, messages, memstore,
                   events>>

\* create_summary: llm.summarize and llm.extract_entities return or raise, and
\* ConversationSummary validates message_range (two ints) against the two
\* float timestamps; then store_summary_as_memory awaits the vector store
CreateSummary(t) ==
    /\ CanRun(t)
    /\ tk[t].pc = "summarize"
    /\ \E llm_ok \in BOOLEAN, whole_seconds \in BOOLEAN :
         IF llm_ok /\ whole_seconds
         THEN /\ tk' = [tk EXCEPT ![t].pc = "store_mem"]
              /\ Hold(t, "io")
         ELSE /\ tk' = [tk EXCEPT ![t].pc = "send"]
              /\ running' = t
    /\ UNCHANGED <<now, unit, direct, backend, use_comprehend, tenants, stored, messages, memstore,
                   events>>

\* store_summary_as_memory: add_documents returns or raises; on success the
\* summary is appended to conversation.summaries
StoreSummary(t) ==
    /\ CanRun(t)
    /\ tk[t].pc = "store_mem"
    /\ \E ok \in BOOLEAN :
         IF ok
         THEN LET r == [Conv(t) EXCEPT !.summaries =
                          Append(@, [message_range |-> tk[t].message_range])] IN
              /\ memstore' = memstore \cup
                    {[doc_type |-> "memory",
                      tenant_id |-> Conv(t).tenant_id,
                      user_id |-> Conv(t).user_id,
                      conversation_id |-> tk[t].cid,
                      message_range |-> tk[t].message_range]}
              /\ stored' = StoredAfter(t, r, FALSE)
              /\ tk' = [tk EXCEPT ![t] = [LocalAfter(t, r) EXCEPT
                          !.pc = "send", !.summarized = TRUE]]
         ELSE /\ tk' = [tk EXCEPT ![t].pc = "send"]
              /\ UNCHANGED <<stored, memstore>>
    /\ running' = t
    /\ UNCHANGED <<now, unit, direct, backend, use_comprehend, tenants, messages, events>>

\* process_message returns; whatsapp.send_text(response_text) (a ChannelError
\* it raises is logged by the handler and changes nothing)
SendReply(t) ==
    /\ CanRun(t)
    /\ tk[t].pc = "send"
    /\ tk' = [tk EXCEPT ![t] = Finish(@, "reply")]
    /\ running' = Nobody
    /\ UNCHANGED <<now, unit, direct, backend, use_comprehend, tenants, stored, messages, memstore,
                   events>>

\* engine.close_conversation on a conversation loaded from storage
CloseConversation(c) ==
    /\ running = Nobody
    /\ Exists(c)
    /\ stored[c].status # RESOLVED
    /\ stored' = [stored EXCEPT ![c].status = RESOLVED]
    /\ UNCHANGED <<now, unit, direct, backend, use_comprehend, tenants, messages, memstore, tk,
                   running, events>>

Next ==
    \/ \E t \in Tasks : Receive(t)
    \/ \E t \in Tasks : ParseWebhook(t)
    \/ \E t \in Tasks : GetTenant(t)
    \/ \E t \in Tasks : GetConversation(t)
    \/ \E t \in Tasks : CreateConversation(t)
    \/ \E t \in Tasks : CheckHandoffMode(t)
    \/ \E t \in Tasks : AnalyzeSentiment(t)
    \/ \E t \in Tasks : EvaluateHandoff(t)
    \/ \E t \in Tasks : SaveEscalation(t)
    \/ \E t \in Tasks : SaveIncoming(t)
    \/ \E t \in Tasks : SearchKnowledge(t)
    \/ \E t \in Tasks : SearchMemory(t)
    \/ \E t \in Tasks : GetContextMessages(t)
    \/ \E t \in Tasks : GenerateResponse(t)
    \/ \E t \in Tasks : SaveOutgoing(t)
    \/ \E t \in Tasks : SaveConversation(t)
    \/ \E t \in Tasks : LoadMessages(t)
    \/ \E t \in Tasks : CreateSummary(t)
    \/ \E t \in Tasks : StoreSummary(t)
    \/ \E t \in Tasks : SendReply(t)
    \/ \E c \in ConvIds : CloseConversation(c)

Spec == Init /\ [][Next]_vars

\* the service when the tenant has sentiment analysis disabled and the
\* analyzer works without Comprehend
QuietConfig == [DefaultConfig EXCEPT !.enable_sentiment_analysis = FALSE]
QuietInit ==
    /\ backend \in Backends
    /\ use_comprehend = FALSE
    /\ StartedWith(QuietConfig)
    /\ unit = IdleUnit

QuietSpec == QuietInit /\ [][Next]_vars

\* ------------------------------------------------------------ the clock
\* more than the session window passes during which nothing is delivered
Tick ==
    /\ running = Nobody
    /\ \A t \in Tasks : Free(t)
    /\ now < events
    /\ now' = now + 1
    /\ UNCHANGED <<service, unit, direct>>

SessionNext == Next \/ Tick

SessionSpec == Init /\ [][SessionNext]_vars

\* ------------------------------------- Conversation.update_sentiment, called
\* directly on a new Conversation
UpdateSentiment(new_score) ==
    /\ Len(unit.supplied) < MaxCalls
    /\ unit' = [unit EXCEPT
                  !.conversation = update_sentiment(@, new_score),
                  !.supplied = Append(@, new_score)]
    /\ UNCHANGED <<service, now, direct>>

SentimentNext == \E new_score \in Scores : UpdateSentiment(new_score)

SentimentInit ==
    /\ backend = "memory"
    /\ use_comprehend = FALSE
    /\ Started
    /\ unit = IdleUnit

SentimentSpec == SentimentInit /\ [][SentimentNext]_vars

\* ------------------------------------- HandoffEvaluator.evaluate, called
\* directly on a Conversation with some sentiment history and fallback count
Histories == UNION {[1..n -> Scores] : n \in 0..MaxSamples}
Configs == [enable_auto_handoff : BOOLEAN, enable_sentiment_analysis : BOOLEAN]

EvaluatorInit ==
    /\ backend = "memory"
    /\ use_comprehend = FALSE
    /\ Started
    /\ \E history \in Histories, fallback_count \in 0..(MaxFallbacks + 1),
          order \in KeywordOrders :
         unit = [IdleUnit EXCEPT
                   !.conversation = [@ EXCEPT
                        !.sentiment_history = history,
                        !.fallback_count = fallback_count],
                   !.order = order]

\* one call of evaluate; its result is recorded with its arguments
Evaluate(matched, config, sentiment) ==
    /\ unit' = [unit EXCEPT !.last =
           [called |-> TRUE, matched |-> matched, config |-> config,
            sentiment |-> sentiment,
            decision |-> evaluate(matched, unit.conversation, config,
                                  sentiment, unit.order),
            checks |-> checks_run(matched, unit.conversation, config,
                                  sentiment, unit.order)]]
    /\ UNCHANGED <<service, now, direct>>

\* the process is restarted (or another worker process answers): str hashes
\* are seeded anew, and with them the order of the keyword set
Restart ==
    /\ \E order \in KeywordOrders :
         /\ order # unit.order
         /\ unit' = [unit EXCEPT !.order = order]
    /\ UNCHANGED <<service, now, direct>>

EvaluatorNext ==
    \/ \E matched \in SUBSET Keywords, config \in Configs,
          sentiment \in SentimentResults : Evaluate(matched, config, sentiment)
    \/ Restart

EvaluatorSpec == EvaluatorInit /\ [][EvaluatorNext]_vars

\* ------------------------------------- ConversationMemory.should_summarize,
\* called directly on a Conversation that has no summary, a summary whose
\* message_range holds message indices, or one as create_summary builds it
SummaryLists ==
    {<<>>} \cup {<<[message_range |-> range]>> :
                    range \in {<<0, SummaryThreshold>>,
                               <<0, 2 * SummaryThreshold>>,
                               <<Timestamp(1), Timestamp(SummaryThreshold)>>}}

SummarizeInit ==
    /\ backend = "memory"
    /\ use_comprehend = FALSE
    /\ Started
    /\ \E summaries \in SummaryLists :
         unit = [IdleUnit EXCEPT !.conversation.summaries = summaries]

\* a message is counted, as process_message counts it
CountMessage ==
    /\ unit.conversation.message_count < MaxCalls
    /\ unit' = [unit EXCEPT !.conversation.message_count = @ + 1]
    /\ returned' = NoReturn
    /\ UNCHANGED <<service, now, session_data, llm>>

\* one more call of should_summarize; value: the answers of the calls since
\* the conversation last changed
ShouldSummarize_consuming ==
    /\ Len(returned.value) < 2
    /\ returned' = [op |-> "should_summarize", key |-> None, arg |-> <<>>,
                    value |-> Append(returned.value,
                                     should_summarize(unit.conversation))]
    /\ unit' = [unit EXCEPT !.conversation.message_count = 0]
    /\ UNCHANGED <<service, now, session_data, llm>>
ShouldSummarize ==
    /\ Len(returned.value) < 2
    /\ returned' = [op |-> "should_summarize", key |-> None, arg |-> <<>>,
                    value |-> Append(returned.value,
                                     should_summarize(unit.conversation))]
    /\ UNCHANGED <<service, now, unit, session_data, llm>>

SummarizeNext == CountMessage \/ ShouldSummarize

SummarizeSpec == SummarizeInit /\ [][SummarizeNext]_vars

\* ------------------------------------- HandoffEvaluator._check_explicit_request
\* on texts; a text is a sequence of characters
MaxLen == 3
Chars == {"a", "g", "A", "G"}
Texts == UNION {[1..n -> Chars] : n \in 0..MaxLen}

\* str.lower
LowerChar(c) == CASE c = "A" -> "a" [] c = "G" -> "g" [] OTHER -> c
lower(text) == [i \in DOMAIN text |-> LowerChar(text[i])]

\* needle in text
Contains(text, needle) ==
    \E k \in 0..(Len(text) - Len(needle)) :
        \A i \in 1..Len(needle) : text[k + i] = needle[i]

\* HandoffEvaluator.default_handoff_keywords and lists a tenant may configure
default_handoff_keywords == {<<"a", "g">>, <<"g", "g">>}
KeywordLists == {<<>>, <<<<"A", "g">>>>, <<<<"g", "a">>, <<"G", "G">>>>}

\* the keywords the check runs over
keywords_of(handoff_keywords) ==
    IF {handoff_keywords[i] : i \in DOMAIN handoff_keywords} # {}
    THEN {handoff_keywords[i] : i \in DOMAIN handoff_keywords}
    ELSE default_handoff_keywords

\* the keywords whose lower-cased form occurs in the lower-cased message
matched_keywords_as_written(message, handoff_keywords) ==
    {keyword \in keywords_of(handoff_keywords) :
        Contains(lower(message), keyword)}
matched_keywords(message, handoff_keywords) ==
    {keyword \in keywords_of(handoff_keywords) :
        Contains(lower(message), lower(keyword))}

\* the orders in which a set may be iterated
OrdersOf(set) ==
    {order \in [1..Cardinality(set) -> set] :
        \A i, j \in DOMAIN order : order[i] = order[j] => i = j}

CheckExplicitRequest(message, handoff_keywords) ==
    /\ \E order \in OrdersOf(keywords_of(handoff_keywords)) :
         returned' = [op |-> "_check_explicit_request", key |-> None,
                      arg |-> <<message, handoff_keywords>>,
                      value |-> <<_check_explicit_request(
                                     matched_keywords(message, handoff_keywords),
                                     order)>>]
    /\ UNCHANGED <<service, now, unit, session_data, llm>>

ExplicitRequestNext ==
    \E message \in Texts, handoff_keywords \in KeywordLists :
        CheckExplicitRequest(message, handoff_keywords)

ExplicitRequestSpec == SentimentInit /\ [][ExplicitRequestNext]_vars

\* ------------------------------------- RAGRetriever.retrieve, called directly
\* on a vector store that holds documents of two tenants and two users
Payload(doc_type, tenant_id, user_id) ==
    [doc_type |-> doc_type, tenant_id |-> tenant_id, user_id |-> user_id,
     conversation_id |-> 0, message_range |-> <<0, 0>>]
StoreTenants == {KnownTenant, "other"}
StoreUsers == {"u1", "u2"}
Payloads ==
    {Payload("knowledge", tenant_id, None) : tenant_id \in StoreTenants}
       \cup {Payload("memory", tenant_id, user_id) :
                tenant_id \in StoreTenants, user_id \in StoreUsers}

RetrieveInit ==
    /\ backend = "memory"
    /\ use_comprehend = FALSE
    /\ tenants = [x \in {KnownTenant} |-> DefaultConfig]
    /\ memstore \in SUBSET Payloads
    /\ Quiescent
    /\ unit = IdleUnit

\* QdrantVectorStore.search: the conditions of the query filter, and the
\* documents that satisfy them; Qdrant returns those of them that score
\* above the threshold, at most `limit`
must_conditions_no_tenant(tenant_id, doc_type, additional_filters) ==
    (IF doc_type # None THEN {<<"doc_type", doc_type>>} ELSE {})
       \cup {<<key, additional_filters[key]>> : key \in DOMAIN additional_filters}
must_conditions(tenant_id, doc_type, additional_filters) ==
    {<<"tenant_id", tenant_id>>}
       \cup (IF doc_type # None THEN {<<"doc_type", doc_type>>} ELSE {})
       \cup {<<key, additional_filters[key]>> : key \in DOMAIN additional_filters}
Satisfying(conditions) ==
    {payload \in memstore : \A cond \in conditions : payload[cond[1]] = cond[2]}

\* RAGRetriever.retrieve(tenant_id, user_id) with include_kb and
\* include_memory; value: the knowledge-base results, the memory results and
\* the filters of the searches issued
Retrieve(tenant_id, user_id) ==
    LET kb_filter == must_conditions(tenant_id, "knowledge", [k \in {} |-> None])
        memory_filter == must_conditions(tenant_id, "memory",
                                         [k \in {"user_id"} |-> user_id]) IN
    /\ \E kb_results \in SUBSET Satisfying(kb_filter),
          memory_results \in SUBSET Satisfying(memory_filter) :
         /\ user_id = None => memory_results = {}
         /\ returned' = [op |-> "retrieve", key |-> tenant_id,
                         arg |-> <<user_id>>,
                         value |-> <<kb_results, memory_results,
                                     IF user_id # None
                                     THEN <<kb_filter, memory_filter>>
                                     ELSE <<kb_filter>>>>]
    /\ UNCHANGED <<service, now, unit, session_data, llm>>

RetrieveNext ==
    \E tenant_id \in StoreTenants, user_id \in StoreUsers \cup {None} :
        Retrieve(tenant_id, user_id)

RetrieveSpec == RetrieveInit /\ [][RetrieveNext]_vars

\* ------------------------------------- LLMProvider.complete, called directly
\* on a provider with some primary model and some list of fallback models
MaxDepth == 5
Models == {"m1", "m2", "m3"}
FallbackLists == UNION {[1..n -> Models] : n \in 1..2}
Attempts == 3

LlmInit ==
    /\ backend = "memory"
    /\ use_comprehend = FALSE
    /\ tenants = [x \in {KnownTenant} |-> DefaultConfig]
    /\ memstore = {}
    /\ stored = [c \in ConvIds |-> Absent]
    /\ messages = <<>>
    /\ tk = [t \in Tasks |-> IdleTask]
    /\ running = Nobody
    /\ events = 0
    /\ now = 0
    /\ session_data = [key \in {} |-> <<>>]
    /\ returned = NoReturn
    /\ unit = IdleUnit
    /\ \E primary_model \in Models, fallback_models \in FallbackLists :
         llm = [IdleProvider EXCEPT !.primary_model = primary_model,
                                    !.fallback_models = fallback_models]

\* a call of complete(model): attempt counts the attempts of the retry
\* decorator, at = 0 before litellm.acompletion, at = i while the except
\* branch is at the i-th fallback model
Frame(model) == [model |-> model, attempt |-> 1, at |-> 0]
Top == llm.stack[Len(llm.stack)]
Caller == SubSeq(llm.stack, 1, Len(llm.stack) - 1)
WithTop(frame) == Append(Caller, frame)

\* complete() is called with no model: the primary model
Complete ==
    /\ llm.stack = <<>>
    /\ llm.result = None
    /\ llm' = [llm EXCEPT !.stack = <<Frame(llm.primary_model)>>]
    /\ UNCHANGED <<service, now, unit, session_data, returned>>

\* litellm.acompletion returns (every call in progress returns the
\* response) or raises (the except branch starts on the fallback models)
ProviderCall ==
    /\ llm.stack # <<>>
    /\ Top.at = 0
    /\ \E ok \in BOOLEAN :
         IF ok
         THEN llm' = [llm EXCEPT !.stack = <<>>, !.calls = @ + 1,
                                 !.result = "returned"]
         ELSE llm' = [llm EXCEPT !.stack = WithTop([Top EXCEPT !.at = 1]),
                                 !.calls = @ + 1]
    /\ UNCHANGED <<service, now, unit, session_data, returned>>

\* the loop over fallback_models: the model of this call is skipped, another
\* model is tried with a nested complete call
TryFallback ==
    /\ llm.stack # <<>>
    /\ Top.at \in 1..Len(llm.fallback_models)
    /\ IF llm.fallback_models[Top.at] = Top.model
       THEN llm' = [llm EXCEPT !.stack = WithTop([Top EXCEPT !.at = @ + 1])]
       ELSE /\ Len(llm.stack) < MaxDepth
            /\ llm' = [llm EXCEPT !.stack =
                          Append(@, Frame(llm.fallback_models[Top.at]))]
    /\ UNCHANGED <<service, now, unit, session_data, returned>>

\* the loop is over: LLMError is raised; the retry decorator calls again or,
\* after the last attempt, re-raises to the caller, whose loop goes on
RaiseLLMError ==
    /\ llm.stack # <<>>
    /\ Top.at > Len(llm.fallback_models)
    /\ IF Top.attempt < Attempts
       THEN llm' = [llm EXCEPT !.stack =
                       WithTop([Top EXCEPT !.attempt = @ + 1, !.at = 0])]
       ELSE IF Caller = <<>>
       THEN llm' = [llm EXCEPT !.stack = <<>>, !.result = "LLMError"]
       ELSE llm' = [llm EXCEPT !.stack =
                       Append(SubSeq(Caller, 1, Len(Caller) - 1),
                              [Caller[Len(Caller)] EXCEPT !.at = @ + 1])]
    /\ UNCHANGED <<service, now, unit, session_data, returned>>

LlmNext == Complete \/ ProviderCall \/ TryFallback \/ RaiseLLMError

LlmSpec == LlmInit /\ [][LlmNext]_vars

\* ------------------------------------- ConversationEngine.handle_fallback,
\* called directly on a Conversation
MaxHandled == 4

\* Conversation.increment_fallback
increment_fallback(conv) == [conv EXCEPT !.fallback_count = @ + 1]

\* handle_fallback: the conversation it saves and what it raises or returns
handle_fallback_unconditional(conv, config) ==
    LET after == increment_fallback(conv) IN
    [conversation |-> after,
     outcome |-> IF after.fallback_count >= MaxFallbacks
                 THEN <<"HandoffRequired", after.fallback_count>>
                 ELSE <<"fallback_message">>]
handle_fallback(conv, config) ==
    LET after == increment_fallback(conv) IN
    [conversation |-> after,
     outcome |-> IF /\ after.fallback_count >= MaxFallbacks
                    /\ config.enable_auto_handoff
                 THEN <<"HandoffRequired", after.fallback_count>>
                 ELSE <<"fallback_message">>]

HandleFallback(config) ==
    /\ unit.conversation.fallback_count < MaxHandled
    /\ LET r == handle_fallback(unit.conversation, config) IN
       /\ unit' = [unit EXCEPT !.conversation = r.conversation]
       /\ stored' = [stored EXCEPT ![1] = r.conversation]
       /\ returned' = [op |-> "handle_fallback", key |-> None,
                       arg |-> <<config, unit.conversation>>,
                       value |-> r.outcome]
    /\ UNCHANGED <<backend, use_comprehend, tenants, messages, memstore, tk,
                   running, events, now, session_data, llm>>

\* another operation on the conversation: a message is counted and the
\* conversation saved
CountAndSave ==
    /\ unit.conversation.message_count < MaxCalls
    /\ unit' = [unit EXCEPT !.conversation = CountOutgoing(@)]
    /\ stored' = [stored EXCEPT ![1] = CountOutgoing(unit.conversation)]
    /\ returned' = NoReturn
    /\ UNCHANGED <<backend, use_comprehend, tenants, messages, memstore, tk,
                   running, events, now, session_data, llm>>

FallbackNext ==
    \/ \E config \in Configs : HandleFallback(config)
    \/ CountAndSave

FallbackSpec == SentimentInit /\ [][FallbackNext]_vars

\* ------------------------------------- StorageBackend, called directly (the
\* admin routes, the tests)
\* a dict: d[key] = value, del d[key]
Put(d, key, value) ==
    [k \in DOMAIN d \cup {key} |-> IF k = key THEN value ELSE d[k]]
Remove(d, key) == [k \in DOMAIN d \ {key} |-> d[k]]

StorageInit ==
    /\ backend \in Backends
    /\ use_comprehend = FALSE
    /\ Started
    /\ unit = IdleUnit

\* StorageBackend.save_tenant
SaveTenant(tenant_id, config) ==
    /\ tenants' = Put(tenants, tenant_id, config)
    /\ returned' = [op |-> "save_tenant", key |-> tenant_id,
                    arg |-> <<config>>, value |-> <<config>>]
    /\ UNCHANGED <<backend, use_comprehend, stored, messages, memstore, tk,
                   running, events, now, unit, session_data, llm>>

\* StorageBackend.get_tenant
get_tenant(tenant_id) ==
    IF tenant_id \in DOMAIN tenants THEN <<tenants[tenant_id]>> ELSE <<>>
ReadTenant(tenant_id) ==
    /\ returned' = [op |-> "get_tenant", key |-> tenant_id, arg |-> <<>>,
                    value |-> get_tenant(tenant_id)]
    /\ UNCHANGED <<service, now, unit, session_data, llm>>

\* StorageBackend.delete_tenant: InMemoryStorage answers whether the tenant
\* was there, FirestoreStorage answers True
delete_tenant_result(tenant_id) ==
    IF backend = "memory" THEN tenant_id \in DOMAIN tenants ELSE TRUE
DeleteTenant(tenant_id) ==
    /\ tenants' = Remove(tenants, tenant_id)
    /\ returned' = [op |-> "delete_tenant", key |-> tenant_id, arg |-> <<>>,
                    value |-> <<delete_tenant_result(tenant_id)>>]
    /\ UNCHANGED <<backend, use_comprehend, stored, messages, memstore, tk,
                   running, events, now, unit, session_data, llm>>

TenantNext ==
    \/ \E tenant_id \in TenantIds, config \in Configs :
          SaveTenant(tenant_id, config)
    \/ \E tenant_id \in TenantIds : ReadTenant(tenant_id)
    \/ \E tenant_id \in TenantIds : DeleteTenant(tenant_id)

TenantSpec == StorageInit /\ [][TenantNext]_vars

SessionKeys == {"k1", "k2"}
SessionValues == {"d1", "d2"}
\* ttl_seconds, in ticks of the clock
Ttls == {1, 2}

\* time passes
Elapse ==
    /\ now < MaxClock
    /\ now' = now + 1
    /\ UNCHANGED <<service, unit, direct>>

\* StorageBackend.set_session_data
SetSessionData(key, data, ttl_seconds) ==
    /\ session_data' = Put(session_data, key,
                           [data |-> data, expiry |-> now + ttl_seconds])
    /\ returned' = [op |-> "set_session_data", key |-> key,
                    arg |-> <<data, ttl_seconds>>, value |-> <<>>]
    /\ UNCHANGED <<service, now, unit, llm>>

\* StorageBackend.get_session_data: an expired entry is deleted
SessionExpired(key) == now > session_data[key].expiry
GetSessionData(key) ==
    /\ IF key \notin DOMAIN session_data
       THEN /\ returned' = [op |-> "get_session_data", key |-> key, arg |-> <<>>,
                            value |-> <<>>]
            /\ session_data' = session_data
       ELSE IF SessionExpired(key)
       THEN /\ returned' = [op |-> "get_session_data", key |-> key, arg |-> <<>>,
                            value |-> <<>>]
            /\ session_data' = Remove(session_data, key)
       ELSE /\ returned' = [op |-> "get_session_data", key |-> key, arg |-> <<>>,
                            value |-> <<session_data[key].data>>]
            /\ session_data' = session_data
    /\ UNCHANGED <<service, now, unit, llm>>

\* StorageBackend.delete_session_data: InMemoryStorage answers whether the
\* key was there, FirestoreStorage answers True
delete_session_result(key) ==
    IF backend = "memory" THEN key \in DOMAIN session_data ELSE TRUE
DeleteSessionData(key) ==
    /\ session_data' = Remove(session_data, key)
    /\ returned' = [op |-> "delete_session_data", key |-> key, arg |-> <<>>,
                    value |-> <<delete_session_result(key)>>]
    /\ UNCHANGED <<service, now, unit, llm>>

SessionDataNext ==
    \/ \E key \in SessionKeys, data \in SessionValues, ttl_seconds \in Ttls :
          SetSessionData(key, data, ttl_seconds)
    \/ \E key \in SessionKeys : GetSessionData(key)
    \/ \E key \in SessionKeys : DeleteSessionData(key)
    \/ Elapse

SessionDataSpec == StorageInit /\ [][SessionDataNext]_vars


\* ------------------------------------------------------------ properties
Held(t) == tk[t].pc \in {"check", "sentiment", "evaluate", "esc_save",
                         "save_in", "kb", "mem", "recent", "generate",
                         "save_out", "save_conv", "get_msgs", "summarize",
                         "store_mem", "send"}
Steps(t) == tk'[t].pc # tk[t].pc
Ended(t, outcome) == tk[t].pc = "done" /\ tk[t].outcome = outcome
Balanced(conv) ==
    conv.bot_message_count + conv.user_message_count = conv.message_count

\* C1: while the persisted status of a conversation is HANDOFF_PENDING or
\* HANDOFF_ACTIVE, no turn on it calls llm.complete, persists an outbound bot
\* Message or changes bot_message_count.
C1_NoReplyInHandoff ==
    [][\A t \in Tasks :
         (Steps(t) /\ Held(t) /\ stored[tk[t].cid].status \in HandoffStates) =>
            /\ ~(tk[t].pc = "recent" /\ tk'[t].pc = "generate")
            /\ ~(tk[t].pc = "save_out" /\ tk'[t].pc = "save_conv")
            /\ stored'[tk[t].cid].bot_message_count
                  = stored[tk[t].cid].bot_message_count]_vars

\* C2: no two turns are in flight on the same conversation at the same time.
C2_OneTurnPerConversation ==
    \A t, u \in Tasks :
        (t # u /\ Held(t) /\ Held(u)) => tk[t].cid # tk[u].cid

\* C3: every Conversation record, persisted or held by a turn, has
\* bot_message_count + user_message_count = message_count.
C3_CountersAddUp ==
    /\ \A c \in ConvIds : Balanced(stored[c])
    /\ \A t \in Tasks : Balanced(tk[t].conv)

C3_Witness ==
    \E c \in ConvIds : /\ Exists(c)
                       /\ stored[c].status = RESOLVED
                       /\ stored[c].bot_message_count >= 1
                       /\ stored[c].user_message_count
                             > stored[c].bot_message_count

\* C4: a turn for an existing tenant that ends in a reply, in an escalation or
\* in the handoff-mode skip has persisted exactly one inbound Message and
\* counted it in message_count and user_message_count.
C4_InboundAlwaysRecorded ==
    \A t \in Tasks :
        (tk[t].pc = "done" /\ tk[t].outcome \in {"reply", "escalated", "skipped"})
            => tk[t].n_in = 1

\* C5: when llm.complete fails, the turn fails with no outbound Message and an
\* unchanged bot_message_count, and storage holds the inbound Message and the
\* turn's incremented message_count and user_message_count.
C5_FailedGenerationKeepsInbound ==
    [][\A t \in Tasks :
         (tk[t].pc = "generate" /\ tk'[t].pc = "done") =>
            /\ tk'[t].outcome = "failed"
            /\ tk'[t].n_out = 0
            /\ tk'[t].n_in = 1
            /\ stored'[tk[t].cid].bot_message_count
                  = stored[tk[t].cid].bot_message_count
            /\ stored'[tk[t].cid].message_count = Conv(t).message_count
            /\ stored'[tk[t].cid].user_message_count
                  = Conv(t).user_message_count]_vars

\* C6: when evaluate indicates escalation the turn takes the escalation branch
\* and ends there: the persisted record has status HANDOFF_PENDING and the
\* decision's reason, the Conversation was saved, and the turn made no
\* llm.complete call and persisted no outbound Message.
C6_EscalationPersistsHandoff ==
    [][\A t \in Tasks :
         /\ (/\ Steps(t)
             /\ tk[t].pc = "evaluate"
             /\ evaluate(Matched(t), Conv(t), tenants[tk[t].tenant_id],
                         SentimentOf(t), <<"agent", "human">>).should_handoff)
               => tk'[t].pc = "esc_save"
         /\ (Steps(t) /\ tk[t].pc = "esc_save") =>
               /\ Ended(t, "escalated")'
               /\ tk[t].decision.should_handoff
               /\ stored'[tk[t].cid].status = HANDOFF_PENDING
               /\ stored'[tk[t].cid].handoff_reason = tk[t].decision.reason
               /\ tk'[t].n_save = 1
               /\ tk'[t].n_llm = 0
               /\ tk'[t].n_out = 0]_vars

C6_Witness ==
    \E t \in Tasks : /\ Ended(t, "escalated")
                     /\ stored[tk[t].cid].status = HANDOFF_PENDING
                     /\ stored[tk[t].cid].handoff_reason
                           = <<"Negative sentiment detected", -80>>

\* C7: a turn that ends in a reply or in an escalation has called
\* save_conversation exactly once since its conversation was loaded or created.
C7_OneSavePerTurn ==
    \A t \in Tasks :
        (tk[t].pc = "done" /\ tk[t].outcome \in {"reply", "escalated"})
            => tk[t].n_save = 1

C7_Witness ==
    \E t \in Tasks : /\ Ended(t, "reply")
                     /\ tk[t].n_save = 1
                     /\ \E d \in memstore : d.conversation_id = tk[t].cid

\* C8: when a turn has summarized, the new summary is in the persisted
\* Conversation record's summaries and in the long-term memory store under the
\* conversation's tenant and user.
C8_SummaryPersisted ==
    \A t \in Tasks :
        (tk[t].pc = "send" /\ tk[t].summarized) =>
            /\ \E i \in DOMAIN stored[tk[t].cid].summaries :
                  stored[tk[t].cid].summaries[i].message_range
                      = tk[t].message_range
            /\ \E d \in memstore :
                  /\ d.tenant_id = stored[tk[t].cid].tenant_id
                  /\ d.user_id = stored[tk[t].cid].user_id
                  /\ d.message_range = tk[t].message_range

C10_LookupNeverFailsTurn ==
    [][\A t \in Tasks :
         /\ (Steps(t) /\ tk[t].pc = "kb") => tk'[t].pc = "mem"
         /\ (Steps(t) /\ tk[t].pc = "mem") => tk'[t].pc = "recent"]_vars

\* C11: the persisted status of a conversation changes only along ACTIVE to
\* HANDOFF_PENDING, HANDOFF_PENDING to HANDOFF_ACTIVE, HANDOFF_ACTIVE to
\* RESOLVED, ACTIVE to EXPIRED and ACTIVE to RESOLVED; RESOLVED and EXPIRED
\* are never left.
C11_StatusMachine ==
    [][\A c \in ConvIds :
         (Exists(c) /\ stored'[c].status # stored[c].status) =>
            <<stored[c].status, stored'[c].status>> \in
               {<<ACTIVE, HANDOFF_PENDING>>, <<HANDOFF_PENDING, HANDOFF_ACTIVE>>,
                <<HANDOFF_ACTIVE, RESOLVED>>, <<ACTIVE, EXPIRED>>,
                <<ACTIVE, RESOLVED>>}]_vars

\* C12: when a delivery looks up the user's conversation, an ACTIVE
\* conversation whose last user message is older than the session window
\* becomes EXPIRED and is not the conversation the turn continues.
C12_StaleConversationExpires ==
    [][\A t \in Tasks : \A c \in ConvIds :
         (/\ Steps(t)
          /\ tk[t].pc = "get_conv"
          /\ Exists(c)
          /\ stored[c].tenant_id = tk[t].tenant_id
          /\ stored[c].user_id = tk[t].user_id
          /\ stored[c].status = ACTIVE
          /\ stored[c].last_user_message_at # <<>>
          /\ ~is_within_session_window(stored[c], now))
            => /\ tk'[t].cid # c
               /\ stored'[c].status = EXPIRED]_vars

\* C13: evaluate runs its checks in the order explicit request, negative
\* sentiment, fallback exhaustion, loop detection and returns at the first
\* that matches: with auto-escalation enabled, a message with a handoff
\* keyword yields EXPLICIT_REQUEST whatever the sentiment and the fallback
\* count are, and no later check runs.
C13_ExplicitRequestFirst ==
    unit.last.called =>
        /\ unit.last.checks \in
              {<<>>, <<"explicit_request">>,
               <<"explicit_request", "sentiment">>,
               <<"explicit_request", "sentiment", "fallbacks">>,
               <<"explicit_request", "fallbacks">>,
               <<"explicit_request", "sentiment", "fallbacks", "loop">>,
               <<"explicit_request", "fallbacks", "loop">>}
        /\ (unit.last.config.enable_auto_handoff /\ unit.last.matched # {}) =>
              /\ unit.last.decision.should_handoff
              /\ unit.last.decision.trigger = "explicit_request"
              /\ unit.last.checks = <<"explicit_request">>

C13_Witness ==
    /\ unit.last.called
    /\ unit.last.matched # {}
    /\ unit.last.config.enable_sentiment_analysis
    /\ unit.last.sentiment.score < SentimentThreshold
    /\ unit.conversation.fallback_count >= MaxFallbacks
    /\ unit.last.decision.trigger = "explicit_request"

\* C14: with auto-escalation disabled evaluate returns should_handoff = false
\* for every message, sentiment, history and fallback count, and runs no check.
C14_DisabledNeverEscalates ==
    (unit.last.called /\ ~unit.last.config.enable_auto_handoff) =>
        /\ unit.last.decision = NoDecision
        /\ unit.last.checks = <<>>

C14_Witness ==
    /\ unit.last.called
    /\ ~unit.last.config.enable_auto_handoff
    /\ unit.last.matched # {}
    /\ unit.last.sentiment.score < SentimentThreshold
    /\ unit.conversation.fallback_count >= MaxFallbacks
    /\ ~unit.last.decision.should_handoff

\* C15: with auto-escalation enabled and no handoff keyword in the message,
\* evaluate returns NEGATIVE_SENTIMENT exactly when the current score is below
\* the threshold or the conversation has 3 samples whose last 3 have a mean
\* below it.
C15_NegativeSentimentTriggers ==
    (/\ unit.last.called
     /\ unit.last.config.enable_auto_handoff
     /\ unit.last.matched = {}) =>
        ((/\ unit.last.decision.should_handoff
          /\ unit.last.decision.trigger = "negative_sentiment")
         <=> (\/ TriggerInstant(unit.last.sentiment.score)
              \/ TriggerSustained(unit.conversation)))

\* C15 (amended): the same, for a tenant that also has sentiment analysis
\* enabled; a tenant with sentiment analysis disabled never gets
\* NEGATIVE_SENTIMENT.
C15_NegativeSentimentWhenEnabled ==
    (/\ unit.last.called
     /\ unit.last.config.enable_auto_handoff
     /\ unit.last.matched = {}) =>
        ((/\ unit.last.decision.should_handoff
          /\ unit.last.decision.trigger = "negative_sentiment")
         <=> (/\ unit.last.config.enable_sentiment_analysis
              /\ (\/ unit.last.sentiment.score < SentimentThreshold
                  \/ (/\ Len(unit.conversation.sentiment_history) >= 3
                      /\ SumSeq(LastN(unit.conversation.sentiment_history, 3))
                            < 3 * SentimentThreshold))))

C15_Witness ==
    /\ unit.last.called
    /\ unit.last.config.enable_sentiment_analysis
    /\ unit.last.matched = {}
    /\ unit.last.sentiment.score = SentimentThreshold
    /\ Len(unit.conversation.sentiment_history) > 3
    /\ unit.last.decision.trigger = "negative_sentiment"
    /\ unit.last.decision.reason[1] = "Sustained negative sentiment"

\* C16: a NEGATIVE_SENTIMENT decision of the instantaneous check has
\* confidence 1.0 and one of the sustained check has confidence 0.8.
C16_SentimentConfidence ==
    (unit.last.called /\ unit.last.decision.trigger = "negative_sentiment") =>
        unit.last.decision.confidence
           = IF unit.last.sentiment.score < SentimentThreshold THEN 100 ELSE 80

\* C17: with auto-escalation enabled, no handoff keyword in the message and
\* no trigger of the sentiment check, evaluate returns MAX_FALLBACKS if and
\* only if fallback_count is at least the configured maximum.
C17_FallbackExhaustion ==
    (/\ unit.last.called
     /\ unit.last.config.enable_auto_handoff
     /\ unit.last.matched = {}
     /\ ~(/\ unit.last.config.enable_sentiment_analysis
          /\ (\/ TriggerInstant(unit.last.sentiment.score)
              \/ TriggerSustained(unit.conversation)))) =>
        ((/\ unit.last.decision.should_handoff
          /\ unit.last.decision.trigger = "max_fallbacks")
         <=> unit.conversation.fallback_count >= MaxFallbacks)

C17_Witness ==
    /\ unit.last.called
    /\ unit.last.config.enable_sentiment_analysis
    /\ unit.last.sentiment.score = 0
    /\ unit.conversation.fallback_count = MaxFallbacks
    /\ unit.last.decision.trigger = "max_fallbacks"
    /\ unit.last.decision.confidence = 100

\* C18: evaluate never returns LOOP_DETECTED, and when the explicit-request,
\* sentiment and fallback checks do not match it returns should_handoff = false.
C18_LoopNeverTriggers ==
    unit.last.called =>
        /\ unit.last.decision.trigger # "loop_detected"
        /\ (/\ unit.last.checks # <<>>
            /\ Last(unit.last.checks) = "loop") =>
               unit.last.decision = NoDecision

C18_Witness ==
    /\ unit.last.called
    /\ unit.last.checks = <<"explicit_request", "sentiment", "fallbacks", "loop">>
    /\ unit.conversation.fallback_count = 1
    /\ unit.last.decision = NoDecision

\* C19: two calls of evaluate with equal message, conversation, tenant and
\* sentiment result return equal decisions, and a call changes neither the
\* conversation nor the evaluator.
C19_EvaluatorIsPure ==
    [][(unit'.last # unit.last) =>
         /\ unit'.conversation = unit.conversation
         /\ unit'.order = unit.order
         /\ (/\ unit.last.called
             /\ unit'.last.matched = unit.last.matched
             /\ unit'.last.config = unit.last.config
             /\ unit'.last.sentiment = unit.last.sentiment)
               => unit'.last.decision = unit.last.decision]_vars

\* C20: after n calls of update_sentiment, sentiment_history has length
\* min(n, 10) and holds the last min(n, 10) scores supplied, in the order
\* supplied.
C20_HistoryKeepsLastTen ==
    LET n == Len(unit.supplied)
        k == IF n < 10 THEN n ELSE 10
        history == unit.conversation.sentiment_history IN
    /\ Len(history) = k
    /\ \A i \in 1..k : history[i] = unit.supplied[n - k + i]

C20_Witness ==
    /\ Len(unit.supplied) = 12
    /\ unit.supplied[1] = -80
    /\ unit.supplied[3] = 0
    /\ unit.conversation.sentiment_history[1] = 0
    /\ Len(unit.conversation.sentiment_history) = 10

\* C21: after each update_sentiment call, average_sentiment is the sum of
\* weight times score over the sum of the weights, the oldest of the k
\* retained scores having weight 1 and the newest weight k.
C21_WeightedAverage ==
    LET history == unit.conversation.sentiment_history
        k == Len(history)
        average == unit.conversation.average_sentiment IN
    k >= 1 =>
        /\ average[2] > 0
        /\ average[1] * ((k * (k + 1)) \div 2)
              = average[2] * SumSeq([i \in 1..k |-> i * history[i]])

C21_Witness ==
    /\ Len(unit.supplied) = 12
    /\ Len(unit.conversation.sentiment_history) = 10
    /\ unit.conversation.sentiment_history[1] = 0
    /\ unit.conversation.sentiment_history[10] = -80
    /\ unit.conversation.average_sentiment[1] < -800
    /\ unit.conversation.average_sentiment[2] = 55

\* C22: a turn goes on to summarize exactly when message_count minus the end
\* index of the last summary (the number of the conversation's messages it
\* covers; 0 without a summary) is at least the threshold.
C22_ShouldSummarizeAtThreshold ==
    [][\A t \in Tasks :
         (Steps(t) /\ tk[t].pc = "save_conv") =>
            LET conv == Conv(t)
                last_end ==
                    IF conv.summaries = <<>> THEN 0
                    ELSE Cardinality(
                           {j \in 1..Len(messages) :
                              /\ messages[j].conversation_id = tk[t].cid
                              /\ Timestamp(j)
                                    <= Last(conv.summaries).message_range[2]}) IN
            (tk'[t].pc = "get_msgs")
               <=> (conv.message_count - last_end >= SummaryThreshold)]_vars

C24_SummaryCoversIndexRange ==
    [][\A t \in Tasks :
         (Steps(t) /\ tk[t].pc = "store_mem" /\ tk'[t].summarized) =>
            LET before == Conv(t).summaries
                after == IF backend = "memory"
                         THEN stored'[tk[t].cid].summaries
                         ELSE tk'[t].conv.summaries IN
            /\ Len(after) = Len(before) + 1
            /\ Last(after).message_range
                  = <<IF before = <<>> THEN 0
                      ELSE Last(before).message_range[2],
                      Conv(t).message_count>>]_vars

\* C25: in every Conversation, persisted or held by a turn, each summary
\* starts at or after the end of the summary before it.
C25_SummariesDoNotOverlap ==
    \A conv \in {stored[c] : c \in ConvIds} \cup {tk[t].conv : t \in Tasks} :
        \A i \in 2..Len(conv.summaries) :
            conv.summaries[i].message_range[1]
               >= conv.summaries[i - 1].message_range[2]

\* C26: when a step of the summarization after a turn fails (loading the
\* messages, the synopsis, the entities, storing the memory), the turn goes
\* on to return its reply and Conversation.summaries is unchanged.
C26_FailedSummaryKeepsReply ==
    [][\A t \in Tasks :
         (/\ Steps(t)
          /\ tk[t].pc \in {"get_msgs", "summarize", "store_mem"}
          /\ ~tk'[t].summarized) =>
            /\ tk'[t].pc \in {"summarize", "store_mem", "send"}
            /\ stored'[tk[t].cid].summaries = stored[tk[t].cid].summaries
            /\ tk'[t].conv.summaries = tk[t].conv.summaries]_vars

\* C27: the short-term window get_context_messages loads has at most N
\* messages, the N most recent messages of the conversation and none of
\* another conversation, oldest first.
C27_ShortTermWindow ==
    [][\A t \in Tasks :
         (Steps(t) /\ tk[t].pc = "recent") =>
            LET window == tk'[t].window
                all == MsgsOf(tk[t].cid)
                n == IF Len(all) < MaxContextMessages THEN Len(all)
                     ELSE MaxContextMessages IN
            /\ Len(window) = n
            /\ \A i \in 1..n :
                  /\ window[i] = all[Len(all) - n + i]
                  /\ messages[window[i]].conversation_id = tk[t].cid
            /\ \A i \in 1..(n - 1) : window[i] < window[i + 1]]_vars

C27_Witness ==
    \E t \in Tasks :
        /\ tk[t].pc = "generate"
        /\ Len(tk[t].window) = MaxContextMessages
        /\ Len(MsgsOf(tk[t].cid)) > MaxContextMessages
        /\ tk[t].window[1] # MsgsOf(tk[t].cid)[1]
        /\ tk[t].window[MaxContextMessages] = Last(MsgsOf(tk[t].cid))

\* C28: a delivery for an unknown tenant ends before any mutation: its steps
\* change no Conversation, no Message and no memory document, and it reaches
\* no step that calls a collaborator.
C28_UnknownTenantNoMutation ==
    [][\A t \in Tasks :
         (/\ Steps(t)
          /\ tk[t].pc # "idle"
          /\ tk[t].pc # "done"
          /\ tk[t].tenant_id \notin DOMAIN tenants) =>
            /\ tk'[t].pc \in {"get_tenant", "done"}
            /\ tk'[t].pc = "done" =>
                  /\ tk'[t].outcome \in {"ignored", "no_tenant"}
                  /\ tk'[t].cid = 0
                  /\ tk'[t].n_in + tk'[t].n_out + tk'[t].n_llm
                        + tk'[t].n_save = 0
            /\ UNCHANGED <<stored, messages, memstore>>]_vars

C28_Witness ==
    \E t \in Tasks :
        /\ Ended(t, "no_tenant")
        /\ tk[t].cid = 0
        /\ \E c \in ConvIds : Exists(c) /\ stored[c].message_count > 0

\* C29: get_session_data(key) returns the data most recently set for key
\* while the entry is neither expired nor deleted; once it has expired the
\* call returns nothing and removes the entry; delete_session_data returns
\* true exactly when the key was present and leaves no entry.
C29_SessionTtlCache ==
    [][(returned' # returned \/ session_data' # session_data) =>
         LET key == returned'.key IN
         /\ returned'.op = "set_session_data" =>
               /\ key \in DOMAIN session_data'
               /\ session_data'[key].data = returned'.arg[1]
               /\ session_data'[key].expiry = now + returned'.arg[2]
         /\ returned'.op = "get_session_data" =>
               IF key \in DOMAIN session_data /\ now <= session_data[key].expiry
               THEN /\ returned'.value = <<session_data[key].data>>
                    /\ session_data' = session_data
               ELSE /\ returned'.value = <<>>
                    /\ key \notin DOMAIN session_data'
         /\ returned'.op = "delete_session_data" =>
               /\ returned'.value = <<key \in DOMAIN session_data>>
               /\ key \notin DOMAIN session_data']_vars

\* C30: after save_tenant(t), get_tenant(t.id) returns t; delete_tenant(id)
\* returns true exactly when a tenant with that id existed, afterwards
\* get_tenant(id) returns nothing, and the other tenants are unchanged.
C30_TenantRoundTrip ==
    [][(returned' # returned \/ tenants' # tenants) =>
         LET tenant_id == returned'.key IN
         /\ \A other \in (DOMAIN tenants \cup DOMAIN tenants') \ {tenant_id} :
               /\ other \in DOMAIN tenants
               /\ other \in DOMAIN tenants'
               /\ tenants'[other] = tenants[other]
         /\ returned'.op = "save_tenant" =>
               /\ tenant_id \in DOMAIN tenants'
               /\ <<tenants'[tenant_id]>> = returned'.arg
         /\ returned'.op = "get_tenant" =>
               /\ tenants' = tenants
               /\ returned'.value = IF tenant_id \in DOMAIN tenants
                                    THEN <<tenants[tenant_id]>> ELSE <<>>
         /\ returned'.op = "delete_tenant" =>
               /\ returned'.value = <<tenant_id \in DOMAIN tenants>>
               /\ tenant_id \notin DOMAIN tenants']_vars

\* C37: whenever no turn is in flight, every persisted Conversation's
\* message_count is the number of persisted Messages of that conversation,
\* user_message_count the number of inbound ones and bot_message_count the
\* number of outbound ones from the bot.
C37_CountersMatchMessages ==
    (\A t \in Tasks : Free(t)) =>
        \A c \in ConvIds :
            Exists(c) =>
                LET of_c == {i \in DOMAIN messages :
                                messages[i].conversation_id = c} IN
                /\ stored[c].message_count = Cardinality(of_c)
                /\ stored[c].user_message_count
                      = Cardinality({i \in of_c :
                                        messages[i].direction = "inbound"})
                /\ stored[c].bot_message_count
                      = Cardinality({i \in of_c :
                                        /\ messages[i].direction = "outbound"
                                        /\ messages[i].is_from_bot})

\* C39: storage never holds two conversations with status ACTIVE,
\* HANDOFF_PENDING or HANDOFF_ACTIVE for the same tenant and user, whatever
\* the interleaving of get_or_create_conversation calls.
C39_OneOpenConversation ==
    \A tenant_id \in TenantIds, user_id \in Users :
        Cardinality({c \in ConvIds :
                        /\ Exists(c)
                        /\ stored[c].tenant_id = tenant_id
                        /\ stored[c].user_id = user_id
                        /\ stored[c].status \in OpenStates}) <= 1

\* C31: in every turn that produces a reply the steps happen in this order:
\* inbound Message persisted and counted, sentiment scored and applied,
\* evaluator invoked, retriever called, recent window fetched, generator
\* called, outbound Message persisted and counted, summarization check,
\* Conversation persisted.
C31_TurnStepOrder ==
    \A t \in Tasks :
        Ended(t, "reply") =>
            tk[t].steps = <<"inbound", "sentiment", "evaluate", "retrieve",
                            "window", "generate", "outbound",
                            "summarize_check", "persist">>

\* C32: when the tenant has sentiment analysis disabled, a turn does not call
\* the sentiment analyzer and leaves sentiment_history and average_sentiment
\* of its conversation unchanged.
C32_DisabledSentimentNotScored ==
    [][\A t \in Tasks :
         (/\ Steps(t)
          /\ Held(t)
          /\ ~tenants[tk[t].tenant_id].enable_sentiment_analysis) =>
            LET before == Conv(t)
                after == IF tk'[t].pc = "done" \/ backend = "memory"
                         THEN stored'[tk[t].cid] ELSE tk'[t].conv IN
            /\ tk[t].pc # "sentiment"
            /\ before.sentiment_history = after.sentiment_history
            /\ before.average_sentiment = after.average_sentiment]_vars

\* C34: the context of the generation prompt has the knowledge-base block
\* first and the memory block second, and each block is there exactly when
\* its lookup returned a result.
C34_ContextBlocks ==
    [][\A t \in Tasks :
         (Steps(t) /\ tk[t].pc = "recent") =>
            tk'[t].blocks
               = (IF tk[t].kb = "hit" THEN <<"knowledge">> ELSE <<>>)
                    \o (IF tk[t].mem = "hit" THEN <<"summary">> ELSE <<>>)]_vars

\* C38: the message list given to llm.complete is the recent-message window
\* followed by the turn's inbound user message, which occurs in it exactly
\* once, as the last element.
C38_InboundSentOnce ==
    [][\A t \in Tasks :
         (Steps(t) /\ tk[t].pc = "recent") =>
            LET sent == tk'[t].sent IN
            /\ sent # <<>>
            /\ Last(sent) = tk[t].incoming
            /\ \A i \in 1..(Len(sent) - 1) : sent[i] # tk[t].incoming]_vars

\* two characters that differ at most in case; a keyword that occurs in a
\* message when case is disregarded
SameLetter(c, d) ==
    \/ c = d
    \/ {c, d} \in {{"a", "A"}, {"g", "G"}}
OccursIgnoringCase(keyword, message) ==
    \E k \in 0..(Len(message) - Len(keyword)) :
        \A i \in 1..Len(keyword) : SameLetter(message[k + i], keyword[i])

\* C33: the explicit-request check triggers, with trigger explicit_request
\* and confidence 1.0, exactly when some keyword, compared without regard to
\* case, is a substring of the message; the keywords are the tenant's list
\* when it is not empty and the default set otherwise.
C33_ExplicitRequestMatch ==
    [][(returned' # returned /\ returned'.op = "_check_explicit_request") =>
         LET message == returned'.arg[1]
             configured == {returned'.arg[2][i] : i \in DOMAIN returned'.arg[2]}
             keywords == IF configured # {} THEN configured
                         ELSE {<<"a", "g">>, <<"g", "g">>}
             decision == returned'.value[1] IN
         /\ decision.should_handoff
               <=> \E keyword \in keywords : OccursIgnoringCase(keyword, message)
         /\ decision.should_handoff =>
               /\ decision.trigger = "explicit_request"
               /\ decision.confidence = 100]_vars

C33_Witness ==
    /\ returned.op = "_check_explicit_request"
    /\ returned.arg = <<<<"g", "a", "G">>, <<<<"A", "g">>>>>>
    /\ returned.value[1].should_handoff
    /\ returned.value[1].context.matched_keyword = <<"A", "g">>

\* C35: every search a retrieve call issues is filtered by the call's tenant
\* id; the memory search is also filtered by the user id and is issued only
\* when a user id is given; the knowledge-base search has no user filter; no
\* result belongs to another tenant and no memory result to another user.
C35_LookupsAreScoped ==
    [][(returned' # returned /\ returned'.op = "retrieve") =>
         LET tenant_id == returned'.key
             user_id == returned'.arg[1]
             kb_results == returned'.value[1]
             memory_results == returned'.value[2]
             searches == returned'.value[3] IN
         /\ \A i \in DOMAIN searches : <<"tenant_id", tenant_id>> \in searches[i]
         /\ Len(searches) = IF user_id = None THEN 1 ELSE 2
         /\ <<"doc_type", "knowledge">> \in searches[1]
         /\ \A cond \in searches[1] : cond[1] # "user_id"
         /\ Len(searches) = 2 =>
               /\ <<"doc_type", "memory">> \in searches[2]
               /\ <<"user_id", user_id>> \in searches[2]
         /\ \A payload \in kb_results :
               payload.tenant_id = tenant_id /\ payload.doc_type = "knowledge"
         /\ \A payload \in memory_results :
               /\ payload.tenant_id = tenant_id
               /\ payload.user_id = user_id
               /\ payload.doc_type = "memory"]_vars

C35_Witness ==
    /\ returned.op = "retrieve"
    /\ returned.key = KnownTenant
    /\ returned.arg = <<"u1">>
    /\ returned.value[1] # {}
    /\ returned.value[2] # {}
    /\ Payload("knowledge", "other", None) \in memstore
    /\ Payload("memory", KnownTenant, "u2") \in memstore
    /\ Payload("memory", "other", "u1") \in memstore

\* C36: whatever the primary model and the list of fallback models, the
\* complete calls in progress never nest deeper than one call per model
\* (the primary and each fallback), so a chain in which every provider call
\* fails ends with LLMError after a bounded number of calls.
C36_FallbackChainBounded ==
    Len(llm.stack) <= 1 + Len(llm.fallback_models)

\* C40: handle_fallback raises fallback_count by exactly 1 and saves the
\* conversation; it raises HandoffRequired exactly when the new count is at
\* least the maximum and the tenant has auto-handoff enabled, and returns
\* the fallback message otherwise; no other operation changes
\* fallback_count.
C40_HandleFallback ==
    [][IF returned' # returned /\ returned'.op = "handle_fallback"
       THEN LET config == returned'.arg[1]
                count == unit'.conversation.fallback_count IN
            /\ returned'.arg[2] = unit.conversation
            /\ count = unit.conversation.fallback_count + 1
            /\ stored'[1] = unit'.conversation
            /\ unit'.conversation
                  = [unit.conversation EXCEPT !.fallback_count = count]
            /\ IF count >= MaxFallbacks /\ config.enable_auto_handoff
               THEN returned'.value = <<"HandoffRequired", count>>
               ELSE returned'.value = <<"fallback_message">>
       ELSE unit'.conversation.fallback_count
               = unit.conversation.fallback_count]_vars

C40_Witness ==
    /\ returned.op = "handle_fallback"
    /\ returned.value = <<"fallback_message">>
    /\ ~returned.arg[1].enable_auto_handoff
    /\ unit.conversation.fallback_count = MaxFallbacks + 1
    /\ unit.conversation.message_count > 0
    /\ stored[1] = unit.conversation

====
